---- MODULE Spec2Model ----
(***************************************************************************)
(* uVisor vMPU for ARMv8-M (core/vmpu/src/mpu_armv8m/vmpu_armv8m.c):       *)
(* region lookup, ACL query, SecureFault recovery, the system exception    *)
(* multiplexer, the box switch, the SRAM layout and the static slots.      *)
(*                                                                         *)
(* A uint32_t is a pair <<hi, lo>> of 16-bit halves, so that the real      *)
(* memory map (0xE000ED10, 0x42000000, ...) and the wrap at 2^32 are kept. *)
(***************************************************************************)
EXTENDS Integers, Sequences, FiniteSets, TLC

\* ------------------------------------------------------------ bounds
\* Recovered faults allowed between two box switches.
MaxFaults == 1
\* Calls of page_allocator_register_fault recorded per page.
MaxPageFaults == 1
\* Calls of vmpu_acl_sram (boxes laid out in SRAM) in the layout specification.
MaxSramCalls == 2
\* Times the same SecureFault is taken again right after it was recovered.
MaxRepeats == 1
\* Faults recovered in a row, with no box switch in between, in the round-robin
\* specification.
MaxChain == 13

\* ------------------------------------------------------------ uint32_t
H16 == 2^16

U32(hi, lo) == <<hi, lo>>

Zero32 == U32(0, 0)

Lt32(a, b) == a[1] < b[1] \/ (a[1] = b[1] /\ a[2] < b[2])

Le32(a, b) == a = b \/ Lt32(a, b)

\* (uint32_t) (a + b)
Add32(a, b) == U32((a[1] + b[1] + ((a[2] + b[2]) \div H16)) % H16, (a[2] + b[2]) % H16)

\* (uint32_t) (a - b)
Sub32(a, b) ==
    U32((a[1] - b[1] - (IF a[2] < b[2] THEN 1 ELSE 0) + H16) % H16, (a[2] - b[2] + H16) % H16)

\* a >> 5
Shr5(a) == U32(a[1] \div 32, (a[1] % 32) * 2048 + (a[2] \div 32))

RECURSIVE BitAnd(_, _)
\* x & y on naturals
BitAnd(x, y) ==
    IF x = 0 \/ y = 0 THEN 0 ELSE (x % 2) * (y % 2) + 2 * BitAnd(x \div 2, y \div 2)

RECURSIVE BitAndNot(_, _)
\* x & ~y on naturals
BitAndNot(x, y) ==
    IF x = 0 THEN 0 ELSE (x % 2) * (1 - (y % 2)) + 2 * BitAndNot(x \div 2, y \div 2)

Range(s) == {s[i] : i \in DOMAIN s}

\* ------------------------------------------------------------ program constants
\* CMSIS: system exceptions are IRQn = exception number - 16
NVIC_OFFSET == 16
NonMaskableInt_IRQn == -14
HardFault_IRQn == -13
MemoryManagement_IRQn == -12
BusFault_IRQn == -11
UsageFault_IRQn == -10
SecureFault_IRQn == -9
SVCall_IRQn == -5
DebugMonitor_IRQn == -4
PendSV_IRQn == -2
SysTick_IRQn == -1

\* SAU->SFSR bits (write one to clear)
SAU_SFSR_AUVIOL_Msk == 8
SAU_SFSR_SFARVALID_Msk == 64

\* &SCB->SCR
SCB_SCR_ADDR == U32(\hE000, \hED10)

\* ACL word bits
UVISOR_TACL_UEXECUTE == 1
UVISOR_TACL_UWRITE == 2
UVISOR_TACL_UREAD == 4
UVISOR_TACL_SEXECUTE == 8
UVISOR_TACLDEF_STACK == UVISOR_TACL_UREAD + UVISOR_TACL_UWRITE
UVISOR_TACLDEF_DATA == UVISOR_TACL_UREAD + UVISOR_TACL_UWRITE
SAU_RLAR_NSC_Msk == 2

\* bit-band map
VMPU_PERIPH_START == U32(\h4000, 0)
VMPU_PERIPH_BITBAND_START == U32(\h4200, 0)
VMPU_PERIPH_BITBAND_END == U32(\h43FF, \hFFFF)
VMPU_SRAM_START == U32(\h2000, 0)
VMPU_SRAM_BITBAND_START == U32(\h2200, 0)
VMPU_SRAM_BITBAND_END == U32(\h23FF, \hFFFF)

VMPU_PERIPH_BITBAND_ALIAS_TO_ADDR(alias) ==
    Add32(Shr5(Sub32(alias, VMPU_PERIPH_BITBAND_START)), VMPU_PERIPH_START)

VMPU_SRAM_BITBAND_ALIAS_TO_ADDR(alias) ==
    Add32(Shr5(Sub32(alias, VMPU_SRAM_BITBAND_START)), VMPU_SRAM_START)

\* hardware slots: [0, STATIC) are written by vmpu_arch_init only
ARMv8M_SAU_REGIONS_STATIC == 4
ARMv8M_SAU_REGIONS_MAX == 16

StaticSlots == 0 .. (ARMv8M_SAU_REGIONS_STATIC - 1)
DynamicSlots == ARMv8M_SAU_REGIONS_STATIC .. (ARMv8M_SAU_REGIONS_MAX - 1)
AllSlots == 0 .. (ARMv8M_SAU_REGIONS_MAX - 1)

\* ------------------------------------------------------------ data
\* MpuRegion {start, end, config, acl}
MpuRegion(start, end, config, acl) ==
    [start |-> start, end |-> end, config |-> config, acl |-> acl]

\* a disabled slot
NoRegion == MpuRegion(Zero32, Zero32, 0, 0)

InRegion(r, addr) == Le32(r.start, addr) /\ Lt32(addr, r.end)

\* linker-provided symbols (__uvisor_config)
flash_start == U32(0, 0)
entry_points_start == U32(0, \h0400)
entry_points_end == U32(0, \h0800)
flash_end == U32(\h0010, 0)
page_end == U32(\h2001, 0)
sram_end == U32(\h2002, 0)

Boxes == 0 .. 2

\* i-th 4 KiB peripheral window above hi:0000
Window(hi, i, acl) == MpuRegion(U32(hi, i * \h1000), U32(hi, (i + 1) * \h1000), 0, acl)

\* The ACL lists of the box descriptors, which follow a box's stack and data
\* regions in its region table.  Regions of one box are disjoint; regions of
\* different boxes may overlap.
Layout1 ==
    [b \in Boxes |->
        CASE b = 0 ->
               << MpuRegion(U32(\h4000, 0), U32(\h4000, \h1000), 0, 6),
                  MpuRegion(U32(\h2000, 0), U32(\h2000, \h0400), 0, 6),
                  MpuRegion(U32(\hE000, \hE000), U32(\hE000, \hF000), 0, 4),
                  Window(\h4001, 0, 6),
                  Window(\h4002, 0, 4) >>
          [] b = 1 ->
               << MpuRegion(U32(\h4000, \h0800), U32(\h4000, \h2000), 0, 4) >>
          [] b = 2 ->
               [i \in 1 .. 10 |-> Window(\h5000, i - 1, 6)]]

Layout2 ==
    [b \in Boxes |->
        CASE b = 0 ->
               << MpuRegion(U32(\h4200, 0), U32(\h4200, \h1000), 0, 5),
                  MpuRegion(U32(\h2000, 0), U32(\h2000, \h0400), 0, 7),
                  MpuRegion(U32(\h2000, \h8000), U32(\h2000, \h8400), 0, 6) >>
          [] b = 1 ->
               << MpuRegion(U32(\h4000, 0), U32(\h4000, \h1000), 0, 6),
                  MpuRegion(U32(\h2200, 0), U32(\h2200, \h8000), 0, 4) >>
          [] b = 2 ->
               << MpuRegion(U32(\h5000, 0), U32(\h5000, \h1000), 0, 6) >>]

LayoutIds == {1, 2}
LayoutOf(id) == IF id = 1 THEN Layout1 ELSE Layout2

\* Active pages of the page heap, in forward iteration order
Page(start, end, page) == [start |-> start, end |-> end, page |-> page]
\* the page heap: 13 pages of 2 KiB from 0x20008000, page i at index i
HeapPage(i) == Page(U32(\h2000, \h8000 + i * \h0800), U32(\h2000, \h8800 + i * \h0800), i)
Page0 == HeapPage(0)
Page1 == HeapPage(1)
PageIds == 0 .. 12
HeapPages == [i \in 1 .. 13 |-> HeapPage(i - 1)]
\* numbers of active pages at run time
PageCounts == 0 .. 2

\* ------------------------------------------------------------ state
VARIABLES
    box_config,     \* which link image: it fixes the per-box static region tables
    heap_pages,     \* how many pages of the page heap are active (fixed here)
    g_active_box,   \* id of the box currently executing
    g_mpu,          \* slot cache: slots, round-robin cursor g_mpu_slot, wrapped
    page_faults,    \* page -> number of page_allocator_register_fault calls
    SFSR,           \* SAU->SFSR
    halted,         \* the core was stopped by HALT_ERROR
    nfaults,        \* recovered faults since the last vmpu_switch
    last,           \* the last operation: its inputs and its results
    fault_log,      \* regions installed by recovered faults since the last vmpu_switch
    bss_boxes_start,    \* __uvisor_config.bss_boxes_start, fixed by the link image
    g_box_mem_pos,      \* the SRAM layout cursor, static in vmpu_acl_sram
    sram_layout         \* one record per vmpu_acl_sram call: what it recorded and returned

\* the state of the SRAM layout, written at init time only
sram_vars == << bss_boxes_start, g_box_mem_pos, sram_layout >>

vars == << box_config, heap_pages, g_active_box, g_mpu, page_faults, SFSR, halted,
           nfaults, last, fault_log, sram_vars >>

\* vmpu_region_add_static_acl(box_id, start, size, acl, 0): a region
\* [start, start + size) is appended to the table of box_id
vmpu_region_add_static_acl(tables, box_id, start, size, acl) ==
    IF box_id \in DOMAIN tables
    THEN [tables EXCEPT ![box_id] = Append(@, MpuRegion(start, Add32(start, size), 0, acl))]
    ELSE tables

RECURSIVE SramTables(_, _)
\* the region tables after the first n vmpu_acl_sram calls of layout: each call
\* adds the stack region (lines 240-246), then, unless it stopped in the
\* assert of line 255, the data region (lines 260-266)
SramTables(layout, n) ==
    IF n = 0 THEN [b \in Boxes |-> << >>]
    ELSE LET c == layout[n]
             t1 == vmpu_region_add_static_acl(SramTables(layout, n - 1), c.box_id,
                                              c.stack_start, c.stack_size,
                                              UVISOR_TACLDEF_STACK)
         IN  IF c.aborted THEN t1
             ELSE vmpu_region_add_static_acl(t1, c.box_id, c.bss_start, c.bss_size,
                                             UVISOR_TACLDEF_DATA)

\* the per-box static region tables: what vmpu_acl_sram recorded for the box,
\* then the ACLs of its descriptor
box_regions ==
    [b \in Boxes |->
        SramTables(sram_layout, Len(sram_layout))[b] \o LayoutOf(box_config)[b]]

\* the page allocator's active pages, in forward iteration order
active_pages == SubSeq(HeapPages, 1, heap_pages)

\* ------------------------------------------------------------ region table
RECURSIVE FirstCovering(_, _, _)
\* linear scan from index i: the first entry of regions covering addr
FirstCovering(regions, i, addr) ==
    IF i > Len(regions) THEN NoRegion
    ELSE IF InRegion(regions[i], addr) THEN regions[i]
    ELSE FirstCovering(regions, i + 1, addr)

\* vmpu_region_find_for_address(box_id, addr); NoRegion stands for NULL
vmpu_region_find_for_address(tables, box_id, addr) == FirstCovering(tables[box_id], 1, addr)

\* vmpu_region_get_for_box(box_id, &region, &count)
vmpu_region_get_for_box(tables, box_id) == tables[box_id]

\* ------------------------------------------------------------ slot cache
Slot(region, priority) == [region |-> region, priority |-> priority]

\* vmpu_mpu_set_static_acl(index, start, size, acl, hw_flags)
vmpu_mpu_set_static_acl(slots, index, start, size, acl, hw_flags) ==
    [slots EXCEPT ![index] = Slot(MpuRegion(start, Add32(start, size), hw_flags, acl), 255)]

\* mutant: the public SRAM region is programmed one slot too far
vmpu_arch_init_sram_slot_off_by_one ==
    LET s0 == [i \in AllSlots |-> Slot(NoRegion, 0)]
        s1 == vmpu_mpu_set_static_acl(s0, 0, flash_start,
                  Sub32(entry_points_start, flash_start),
                  UVISOR_TACL_UEXECUTE + UVISOR_TACL_UREAD + UVISOR_TACL_UWRITE, 0)
        s2 == vmpu_mpu_set_static_acl(s1, 1, entry_points_start,
                  Sub32(entry_points_end, entry_points_start),
                  UVISOR_TACL_SEXECUTE + UVISOR_TACL_UEXECUTE, SAU_RLAR_NSC_Msk)
        s3 == vmpu_mpu_set_static_acl(s2, 2, entry_points_end,
                  Sub32(flash_end, entry_points_end),
                  UVISOR_TACL_UEXECUTE + UVISOR_TACL_UREAD + UVISOR_TACL_UWRITE, 0)
        s4 == vmpu_mpu_set_static_acl(s3, 4, page_end,
                  Sub32(sram_end, page_end),
                  UVISOR_TACL_UEXECUTE + UVISOR_TACL_UREAD + UVISOR_TACL_UWRITE, 0)
    IN  [slots |-> s4, slot |-> ARMv8M_SAU_REGIONS_STATIC, wrapped |-> FALSE]

\* the slot cache as vmpu_arch_init leaves it
vmpu_arch_init ==
    LET s0 == [i \in AllSlots |-> Slot(NoRegion, 0)]
        s1 == vmpu_mpu_set_static_acl(s0, 0, flash_start,
                  Sub32(entry_points_start, flash_start),
                  UVISOR_TACL_UEXECUTE + UVISOR_TACL_UREAD + UVISOR_TACL_UWRITE, 0)
        s2 == vmpu_mpu_set_static_acl(s1, 1, entry_points_start,
                  Sub32(entry_points_end, entry_points_start),
                  UVISOR_TACL_SEXECUTE + UVISOR_TACL_UEXECUTE, SAU_RLAR_NSC_Msk)
        s3 == vmpu_mpu_set_static_acl(s2, 2, entry_points_end,
                  Sub32(flash_end, entry_points_end),
                  UVISOR_TACL_UEXECUTE + UVISOR_TACL_UREAD + UVISOR_TACL_UWRITE, 0)
        s4 == vmpu_mpu_set_static_acl(s3, 3, page_end,
                  Sub32(sram_end, page_end),
                  UVISOR_TACL_UEXECUTE + UVISOR_TACL_UREAD + UVISOR_TACL_UWRITE, 0)
    IN  [slots |-> s4, slot |-> ARMv8M_SAU_REGIONS_STATIC, wrapped |-> FALSE]

\* vmpu_mpu_invalidate(): forget every dynamic slot, restart the cursor
vmpu_mpu_invalidate(mpu) ==
    [slots |-> [i \in AllSlots |->
                    IF i \in DynamicSlots THEN Slot(NoRegion, 0) ELSE mpu.slots[i]],
     slot |-> ARMv8M_SAU_REGIONS_STATIC,
     wrapped |-> FALSE]

\* vmpu_mpu_push(region, priority): write the next dynamic slot; the result is
\* false iff the cursor had already wrapped (true on the wrap itself)
vmpu_mpu_push(mpu, region, priority) ==
    LET next == mpu.slot + 1
        wraps == next >= ARMv8M_SAU_REGIONS_MAX
    IN  [mpu |-> [slots |-> [mpu.slots EXCEPT ![mpu.slot] = Slot(region, priority)],
                  slot |-> IF wraps THEN ARMv8M_SAU_REGIONS_STATIC ELSE next,
                  wrapped |-> mpu.wrapped \/ wraps],
         ok |-> ~mpu.wrapped]

\* ------------------------------------------------------------ page allocator
\* page_allocator_get_active_region_for_address: the active pages covering addr
ActivePagesFor(pages, addr) == {i \in DOMAIN pages : InRegion(pages[i], addr)}

page_allocator_get_active_region_for_address(pages, addr) ==
    IF ActivePagesFor(pages, addr) = {}
    THEN [ok |-> FALSE, start |-> Zero32, end |-> Zero32, page |-> 0]
    ELSE LET p == pages[CHOOSE i \in ActivePagesFor(pages, addr) : TRUE]
         IN  [ok |-> TRUE, start |-> p.start, end |-> p.end, page |-> p.page]

\* page_allocator_register_fault(page)
page_allocator_register_fault(faults, page) == [faults EXCEPT ![page] = @ + 1]

\* ------------------------------------------------------------ vmpu_armv8m.c
\* the first operand of && at line 31: the active box is not the base box
CheckActiveBox(active) == active # 0

\* mutant: the base box is searched before the active box
vmpu_fault_find_region_base_first(tables, active, fault_addr) ==
    IF vmpu_region_find_for_address(tables, 0, fault_addr) # NoRegion
    THEN vmpu_region_find_for_address(tables, 0, fault_addr)
    ELSE IF CheckActiveBox(active)
    THEN vmpu_region_find_for_address(tables, active, fault_addr)
    ELSE NoRegion

RECURSIVE FindInBoxes(_, _, _)
FindInBoxes(tables, box_id, fault_addr) ==
    IF box_id \notin DOMAIN tables THEN NoRegion
    ELSE IF vmpu_region_find_for_address(tables, box_id, fault_addr) # NoRegion
    THEN vmpu_region_find_for_address(tables, box_id, fault_addr)
    ELSE FindInBoxes(tables, box_id + 1, fault_addr)

\* mutant: after the active box every box is searched, not only the base box
vmpu_fault_find_region_any_box(tables, active, fault_addr) ==
    IF CheckActiveBox(active)
       /\ vmpu_region_find_for_address(tables, active, fault_addr) # NoRegion
    THEN vmpu_region_find_for_address(tables, active, fault_addr)
    ELSE FindInBoxes(tables, 0, fault_addr)

\* vmpu_fault_find_region(fault_addr); NoRegion stands for NULL
vmpu_fault_find_region(tables, active, fault_addr) ==
    IF CheckActiveBox(active)
       /\ vmpu_region_find_for_address(tables, active, fault_addr) # NoRegion
    THEN vmpu_region_find_for_address(tables, active, fault_addr)
    ELSE IF vmpu_region_find_for_address(tables, 0, fault_addr) # NoRegion
    THEN vmpu_region_find_for_address(tables, 0, fault_addr)
    ELSE NoRegion

InPeriphBitband(addr) ==
    Le32(VMPU_PERIPH_BITBAND_START, addr) /\ Le32(addr, VMPU_PERIPH_BITBAND_END)

InSramBitband(addr) ==
    Le32(VMPU_SRAM_BITBAND_START, addr) /\ Le32(addr, VMPU_SRAM_BITBAND_END)

\* mutant: the SRAM alias window is not translated
TranslateBitband_periph_only(fault_addr) ==
    IF InPeriphBitband(fault_addr) THEN VMPU_PERIPH_BITBAND_ALIAS_TO_ADDR(fault_addr)
    ELSE fault_addr

\* lines 54-59: the physical address of a bit-band alias, any other address unchanged
TranslateBitband(fault_addr) ==
    IF InPeriphBitband(fault_addr) THEN VMPU_PERIPH_BITBAND_ALIAS_TO_ADDR(fault_addr)
    ELSE IF InSramBitband(fault_addr) THEN VMPU_SRAM_BITBAND_ALIAS_TO_ADDR(fault_addr)
    ELSE fault_addr

\* mutant: >= for >
ExceedsRegion_ge(fault_addr, size, region) == Le32(region.end, Add32(fault_addr, size))

\* line 67: (fault_addr + size) > region->end, in uint32_t
ExceedsRegion(fault_addr, size, region) == Lt32(region.end, Add32(fault_addr, size))

\* vmpu_fault_find_acl(fault_addr, size)
vmpu_fault_find_acl(tables, active, fault_addr, size) ==
    IF fault_addr = SCB_SCR_ADDR THEN UVISOR_TACL_UWRITE + UVISOR_TACL_UREAD
    ELSE LET addr == TranslateBitband(fault_addr)
             region == vmpu_fault_find_region(tables, active, addr)
         IN  IF region = NoRegion THEN 0
             ELSE IF ExceedsRegion(addr, size, region) THEN 0
             ELSE region.acl

\* vmpu_mem_push_page_acl_iterator(start_addr, end_addr, page)
vmpu_mem_push_page_acl_iterator(mpu, start_addr, end_addr, page) ==
    vmpu_mpu_push(mpu, MpuRegion(start_addr, end_addr, 1, 0), 100)

\* mutant: recovery starts from an emptied slot cache, as vmpu_switch does
vmpu_fault_recovery_mpu_invalidate_first(tables, pages, active, mpu, faults, fault_addr) ==
    LET pg == page_allocator_get_active_region_for_address(pages, fault_addr)
        region == vmpu_fault_find_region(tables, active, fault_addr)
        mpu0 == vmpu_mpu_invalidate(mpu)
    IN  IF pg.ok
        THEN [recovered |-> 1,
              mpu |-> vmpu_mem_push_page_acl_iterator(mpu0, pg.start, pg.end, active).mpu,
              faults |-> page_allocator_register_fault(faults, pg.page),
              region |-> MpuRegion(pg.start, pg.end, 1, 0)]
        ELSE IF region = NoRegion
        THEN [recovered |-> 0, mpu |-> mpu, faults |-> faults, region |-> NoRegion]
        ELSE [recovered |-> 1,
              mpu |-> vmpu_mpu_push(mpu0, region, 3).mpu,
              faults |-> faults,
              region |-> region]

\* mutant: the static region tables are consulted before the page allocator
vmpu_fault_recovery_mpu_static_first(tables, pages, active, mpu, faults, fault_addr) ==
    LET pg == page_allocator_get_active_region_for_address(pages, fault_addr)
        region == vmpu_fault_find_region(tables, active, fault_addr)
    IN  IF region # NoRegion
        THEN [recovered |-> 1,
              mpu |-> vmpu_mpu_push(mpu, region, 3).mpu,
              faults |-> faults,
              region |-> region]
        ELSE IF pg.ok
        THEN [recovered |-> 1,
              mpu |-> vmpu_mem_push_page_acl_iterator(mpu, pg.start, pg.end, active).mpu,
              faults |-> page_allocator_register_fault(faults, pg.page),
              region |-> MpuRegion(pg.start, pg.end, 1, 0)]
        ELSE [recovered |-> 0, mpu |-> mpu, faults |-> faults, region |-> NoRegion]

\* mutant: the result of the push is returned as the result of recovery
vmpu_fault_recovery_mpu_push_result(tables, pages, active, mpu, faults, fault_addr) ==
    LET pg == page_allocator_get_active_region_for_address(pages, fault_addr)
        region == vmpu_fault_find_region(tables, active, fault_addr)
        page_push == vmpu_mem_push_page_acl_iterator(mpu, pg.start, pg.end, active)
        region_push == vmpu_mpu_push(mpu, region, 3)
    IN  IF pg.ok
        THEN [recovered |-> IF page_push.ok THEN 1 ELSE 0,
              mpu |-> page_push.mpu,
              faults |-> page_allocator_register_fault(faults, pg.page),
              region |-> MpuRegion(pg.start, pg.end, 1, 0)]
        ELSE IF region = NoRegion
        THEN [recovered |-> 0, mpu |-> mpu, faults |-> faults, region |-> NoRegion]
        ELSE [recovered |-> IF region_push.ok THEN 1 ELSE 0,
              mpu |-> region_push.mpu,
              faults |-> faults,
              region |-> region]

\* vmpu_fault_recovery_mpu(pc, sp, fault_addr, fault_status)
vmpu_fault_recovery_mpu(tables, pages, active, mpu, faults, fault_addr) ==
    LET pg == page_allocator_get_active_region_for_address(pages, fault_addr)
        region == vmpu_fault_find_region(tables, active, fault_addr)
    IN  IF pg.ok
        THEN [recovered |-> 1,
              mpu |-> vmpu_mem_push_page_acl_iterator(mpu, pg.start, pg.end, active).mpu,
              faults |-> page_allocator_register_fault(faults, pg.page),
              region |-> MpuRegion(pg.start, pg.end, 1, 0)]
        ELSE IF region = NoRegion
        THEN [recovered |-> 0, mpu |-> mpu, faults |-> faults, region |-> NoRegion]
        ELSE [recovered |-> 1,
              mpu |-> vmpu_mpu_push(mpu, region, 3).mpu,
              faults |-> faults,
              region |-> region]

\* mutant: one of the two flags is enough
SecureFaultValid_either(fault_status) ==
    BitAnd(fault_status, SAU_SFSR_AUVIOL_Msk + SAU_SFSR_SFARVALID_Msk) # 0

\* lines 150-151: SFSR signals both AUVIOL and SFARVALID
SecureFaultValid(fault_status) ==
    BitAnd(fault_status, SAU_SFSR_AUVIOL_Msk + SAU_SFSR_SFARVALID_Msk)
        = SAU_SFSR_AUVIOL_Msk + SAU_SFSR_SFARVALID_Msk

\* line 114: the IPSR value in the *_IRQn encoding
IrqnOf(IPSR) == BitAnd(IPSR, 511) - NVIC_OFFSET

\* mutant: the SVCall and PendSV cases are missing and fall to the default
HaltCode_missing_cases(ipsr) ==
    CASE ipsr = NonMaskableInt_IRQn -> "NOT_IMPLEMENTED"
      [] ipsr = HardFault_IRQn -> "FAULT_HARD"
      [] ipsr = MemoryManagement_IRQn -> "FAULT_MEMMANAGE"
      [] ipsr = BusFault_IRQn -> "FAULT_BUS"
      [] ipsr = UsageFault_IRQn -> "FAULT_USAGE"
      [] ipsr = SecureFault_IRQn -> "PERMISSION_DENIED"
      [] ipsr = DebugMonitor_IRQn -> "FAULT_DEBUG"
      [] ipsr = SysTick_IRQn -> "NOT_IMPLEMENTED"
      [] OTHER -> "NOT_ALLOWED"

\* the error HALT_ERROR is given for each exception that is not recovered
HaltCode(ipsr) ==
    CASE ipsr = NonMaskableInt_IRQn -> "NOT_IMPLEMENTED"
      [] ipsr = HardFault_IRQn -> "FAULT_HARD"
      [] ipsr = MemoryManagement_IRQn -> "FAULT_MEMMANAGE"
      [] ipsr = BusFault_IRQn -> "FAULT_BUS"
      [] ipsr = UsageFault_IRQn -> "FAULT_USAGE"
      [] ipsr = SecureFault_IRQn -> "PERMISSION_DENIED"
      [] ipsr = SVCall_IRQn -> "NOT_IMPLEMENTED"
      [] ipsr = DebugMonitor_IRQn -> "FAULT_DEBUG"
      [] ipsr = PendSV_IRQn -> "NOT_IMPLEMENTED"
      [] ipsr = SysTick_IRQn -> "NOT_IMPLEMENTED"
      [] OTHER -> "NOT_ALLOWED"

\* vmpu_sys_mux_handler(lr, msp_s) entered with IPSR, SAU->SFSR = sfsr and
\* SAU->SFAR = sfar.  recov: -1 recovery not called, else what it returned.
vmpu_sys_mux_handler(tables, pages, active, mpu, faults, IPSR, sfsr, sfar, lr) ==
    LET ipsr == IrqnOf(IPSR)
        fault_status == sfsr
        rec == vmpu_fault_recovery_mpu(tables, pages, active, mpu, faults, sfar)
        halt == [outcome |-> "halt", code |-> HaltCode(ipsr), ret |-> Zero32,
                 mpu |-> mpu, faults |-> faults, sfsr |-> sfsr,
                 recov |-> -1, region |-> NoRegion]
    IN  IF ipsr = SecureFault_IRQn /\ SecureFaultValid(fault_status)
        THEN IF rec.recovered # 0
             THEN [outcome |-> "return", code |-> "", ret |-> lr,
                   mpu |-> rec.mpu, faults |-> rec.faults,
                   \* SAU->SFSR = fault_status: the bits written as one are cleared
                   sfsr |-> BitAndNot(sfsr, fault_status),
                   recov |-> rec.recovered, region |-> rec.region]
             ELSE [halt EXCEPT !.recov = rec.recovered]
        ELSE halt

RECURSIVE IteratePages(_, _, _)
\* page_allocator_iterate_active_pages(vmpu_mem_push_page_acl_iterator, FORWARD):
\* st = [mpu, oks]; the iteration stops when the callback returns 0
IteratePages(st, pages, i) ==
    IF i > Len(pages) THEN st
    ELSE LET r == vmpu_mem_push_page_acl_iterator(st.mpu, pages[i].start, pages[i].end,
                                                  pages[i].page)
             st1 == [mpu |-> r.mpu, oks |-> Append(st.oks, r.ok)]
         IN  IF r.ok THEN IteratePages(st1, pages, i + 1) ELSE st1

RECURSIVE PushWhile(_, _, _, _)
\* while (dst_count-- && vmpu_mpu_push(region++, priority));
PushWhile(st, regions, i, priority) ==
    IF i > Len(regions) THEN st
    ELSE LET r == vmpu_mpu_push(st.mpu, regions[i], priority)
             st1 == [mpu |-> r.mpu, oks |-> Append(st.oks, r.ok)]
         IN  IF r.ok THEN PushWhile(st1, regions, i + 1, priority) ELSE st1

\* vmpu_switch(src_box, dst_box): the slot cache afterwards and the results of
\* its pushes in order
vmpu_switch(tables, pages, mpu, src_box, dst_box) ==
    LET st0 == [mpu |-> vmpu_mpu_invalidate(mpu), oks |-> << >>]
        dst == vmpu_region_get_for_box(tables, dst_box)
        first == vmpu_mpu_push(st0.mpu, dst[1], 255)
        st1 == IF dst_box # 0
               THEN [mpu |-> first.mpu, oks |-> << first.ok >>]
               ELSE st0
        st2 == IteratePages(st1, pages, 1)
        st3 == IF dst_box # 0 THEN PushWhile(st2, dst, 2, 2) ELSE st2
    IN  IF dst_box = 0
        THEN PushWhile(st3, vmpu_region_get_for_box(tables, 0), 1, 1)
        ELSE st3

\* ------------------------------------------------------------ SRAM layout
\* the guard band between extents
UVISOR_STACK_BAND_SIZE == U32(0, 32)

\* the stack floor
UVISOR_MIN_STACK_SIZE == U32(0, 1024)

UVISOR_MIN_STACK(x) == IF Lt32(x, UVISOR_MIN_STACK_SIZE) THEN UVISOR_MIN_STACK_SIZE ELSE x

\* round up to the 32-byte region granule, in uint32_t
UVISOR_REGION_ROUND_UP(x) ==
    LET y == Add32(x, U32(0, 31))
    IN  U32(y[1], y[2] - (y[2] % 32))

\* an output parameter the call returned without writing
Unwritten == << >>

\* vmpu_acl_sram(box_id, bss_size, stack_size, bss_start, stack_pointer): the
\* regions it records with vmpu_region_add_static_acl (stack at stack_start,
\* data at bss_start), the two values it returns and the cursor it leaves;
\* base is bss_boxes_start, pos the cursor on entry, bss_size_in the bss_size
\* argument. ndebug tells whether the build defines NDEBUG: if it does not,
\* a call with bss_size = 0 stops in the assert of line 255 (aborted), after
\* the stack region is recorded, *stack_pointer written and the cursor moved
\* past the stack and its band (lines 229-252), with *bss_start unwritten and
\* bss_size not rounded; if it does, the call goes on with bss_size = 0.
vmpu_acl_sram(base, pos, box_id, bss_size_in, stack_size_in, ndebug) ==
    LET pos0 == IF pos = Zero32
                THEN Add32(UVISOR_REGION_ROUND_UP(base), UVISOR_STACK_BAND_SIZE)
                ELSE pos
        stack_size == UVISOR_REGION_ROUND_UP(UVISOR_MIN_STACK(stack_size_in))
        pos1 == Add32(pos0, stack_size)
        pos2 == Add32(pos1, UVISOR_STACK_BAND_SIZE)
        aborted == (bss_size_in = Zero32) /\ ~ndebug
        bss_size == UVISOR_REGION_ROUND_UP(bss_size_in)
        pos3 == Add32(pos2, Add32(bss_size, UVISOR_STACK_BAND_SIZE))
    IN  [box_id |-> box_id, initialised |-> (pos = Zero32), bss_size_in |-> bss_size_in,
         stack_start |-> pos0, stack_size |-> stack_size, stack_pointer |-> pos1,
         aborted |-> aborted,
         bss_start |-> IF aborted THEN Unwritten ELSE pos2,
         bss_size |-> IF aborted THEN bss_size_in ELSE bss_size,
         g_box_mem_pos |-> IF aborted THEN pos2 ELSE pos3]

\* the layout of the run-time link images: boxes 1 and 2 laid out from
\* 0x20001000 with 1 KiB stacks and 200 bytes of bss (bss_size != 0, so the
\* assert of line 255 passes, whether or not the build compiles it)
RuntimeBase == U32(\h2000, \h1000)
RuntimeSram1 == vmpu_acl_sram(RuntimeBase, Zero32, 1, U32(0, 200), U32(0, 1024), FALSE)
RuntimeSram2 == vmpu_acl_sram(RuntimeBase, RuntimeSram1.g_box_mem_pos, 2, U32(0, 200),
                              U32(0, 1024), FALSE)

\* the SRAM layout is complete when the run-time entry points are called
SramLaidOut ==
    /\ bss_boxes_start = RuntimeBase
    /\ g_box_mem_pos = RuntimeSram2.g_box_mem_pos
    /\ sram_layout = << RuntimeSram1, RuntimeSram2 >>

\* ------------------------------------------------------------ inputs
\* exception numbers as IPSR reports them: 2 NMI .. 15 SysTick, 16 the first IRQ
IpsrValues == 1 .. 16

ExcReturns == {U32(\hFFFF, \hFFFD), U32(\hFFFF, \hFFBC)}

SfsrValues == {SAU_SFSR_AUVIOL_Msk + SAU_SFSR_SFARVALID_Msk,
               SAU_SFSR_AUVIOL_Msk + SAU_SFSR_SFARVALID_Msk + 1,
               SAU_SFSR_AUVIOL_Msk,
               SAU_SFSR_SFARVALID_Msk}

\* the access that faulted, as the ACL bit it needs
Accesses == {UVISOR_TACL_UREAD, UVISOR_TACL_UWRITE}

FaultAddrs ==
    { U32(\h4000, \h0100),    \* box-0 peripheral (layout 1), box-1 peripheral (layout 2)
      U32(\h4000, \h0900),    \* layout 1: box-1 and box-0 peripherals overlap
      U32(\h2000, \h1100),    \* box-1 stack
      U32(\h5000, \h0000),    \* box-2 peripheral only
      U32(\h2000, \h8010),    \* page 0
      U32(\h2200, \h0040),    \* SRAM bit-band alias of 0x20000002
      SCB_SCR_ADDR,
      U32(\h6000, \h0000) }   \* covered by nothing

QueryAddrs ==
    FaultAddrs \cup
    { U32(\h4000, \h0FFC),    \* last word of the box-0 peripheral (layout 1)
      U32(\h4200, \h0100),    \* peripheral bit-band alias of 0x40000008
      U32(\h4202, \h0000),    \* peripheral bit-band alias of 0x40001000
      U32(\h2000, \h0002),
      U32(\h4000, \h0008) }

WordSize == U32(0, 4)

QuerySizes == {U32(0, 1), WordSize, U32(0, \h1000), U32(\hFFFF, \hFFFF), U32(\hFFFF, \hF000)}

\* what the hardware latches with the exception: for a SecureFault the status,
\* the faulting address and the access that faulted; nothing for the others
FaultInfo(IPSR) ==
    IF IrqnOf(IPSR) = SecureFault_IRQn
    THEN [sfsr : SfsrValues, sfar : FaultAddrs, acc : Accesses]
    ELSE {[sfsr |-> 0, sfar |-> Zero32, acc |-> 0]}

\* ------------------------------------------------------------ actions
NoOp ==
    [op |-> "none", box |-> 0, src |-> 0, addr |-> Zero32, size |-> Zero32, acc |-> 0,
     IPSR |-> 0, lr |-> Zero32, sfsr |-> 0, outcome |-> "none", code |-> "",
     ret |-> Zero32, acl |-> 0, recov |-> -1, region |-> NoRegion, oks |-> << >>]

Init ==
    /\ box_config \in LayoutIds
    /\ heap_pages \in PageCounts
    /\ g_active_box = 0
    /\ g_mpu = vmpu_arch_init
    /\ page_faults = [p \in PageIds |-> 0]
    /\ SFSR = 0
    /\ halted = FALSE
    /\ nfaults = 0
    /\ last = NoOp
    /\ fault_log = << >>
    /\ SramLaidOut

\* box code is executing: no call into the vMPU is in progress and the core runs
Running == ~halted /\ last.op = "none"

\* a completed call returns to the code that made it (for the handler: the
\* faulting instruction is retried); its record is dropped
Return ==
    /\ ~halted
    /\ last.op # "none"
    /\ last' = NoOp
    /\ UNCHANGED << sram_vars, box_config, heap_pages, g_active_box, g_mpu, page_faults,
                    SFSR, halted, nfaults, fault_log >>

\* the call-gate layer makes box b the executing box
SetActiveBox(b) ==
    /\ Running
    /\ g_active_box' = b
    /\ last' = [NoOp EXCEPT !.op = "set_active", !.box = b]
    /\ UNCHANGED << sram_vars, box_config, heap_pages, g_mpu, page_faults, SFSR, halted,
                    nfaults, fault_log >>

\* vmpu_switch(src_box, dst_box)
Switch(src_box, dst_box) ==
    /\ Running
    /\ LET st == vmpu_switch(box_regions, active_pages, g_mpu, src_box, dst_box)
       IN  /\ g_mpu' = st.mpu
           /\ last' = [NoOp EXCEPT !.op = "switch", !.src = src_box, !.box = dst_box,
                                   !.oks = st.oks]
    /\ nfaults' = 0
    /\ fault_log' = << >>
    /\ UNCHANGED << sram_vars, box_config, heap_pages, g_active_box, page_faults, SFSR,
                    halted >>

\* an exception is taken: the hardware sets IPSR, for a SecureFault also SFSR
\* and SFAR, and vmpu_sys_mux_handler(lr, msp_s) runs to its return or halt
Handler(IPSR, sfsr, sfar, acc, lr) ==
    LET sfsr_in == IF IrqnOf(IPSR) = SecureFault_IRQn THEN sfsr ELSE SFSR
        h == vmpu_sys_mux_handler(box_regions, active_pages, g_active_box, g_mpu,
                                  page_faults, IPSR, sfsr_in, sfar, lr)
    IN  /\ Running
        /\ nfaults < MaxFaults
        /\ \A p \in PageIds : h.faults[p] <= MaxPageFaults
        /\ g_mpu' = h.mpu
        /\ page_faults' = h.faults
        /\ SFSR' = h.sfsr
        /\ halted' = (h.outcome = "halt")
        /\ nfaults' = IF h.outcome = "return" THEN nfaults + 1 ELSE nfaults
        /\ fault_log' = IF h.outcome = "return" THEN Append(fault_log, h.region)
                         ELSE fault_log
        /\ last' = [NoOp EXCEPT !.op = "handler", !.IPSR = IPSR, !.sfsr = sfsr_in,
                                !.addr = sfar, !.acc = acc, !.lr = lr,
                                !.outcome = h.outcome, !.code = h.code, !.ret = h.ret,
                                !.recov = h.recov, !.region = h.region]
        /\ UNCHANGED << sram_vars, box_config, heap_pages, g_active_box >>

\* vmpu_fault_find_acl(fault_addr, size), called by the call-gate code
FindAcl(fault_addr, size) ==
    /\ Running
    /\ last' = [NoOp EXCEPT !.op = "find_acl", !.addr = fault_addr, !.size = size,
                            !.outcome = "return",
                            !.acl = vmpu_fault_find_acl(box_regions, g_active_box,
                                                        fault_addr, size)]
    /\ UNCHANGED << sram_vars, box_config, heap_pages, g_active_box, g_mpu, page_faults,
                    SFSR, halted, nfaults, fault_log >>

Next ==
    \/ \E b \in Boxes : SetActiveBox(b)
    \/ \E src_box \in Boxes, dst_box \in Boxes : Switch(src_box, dst_box)
    \/ \E IPSR \in IpsrValues, lr \in ExcReturns :
          \E f \in FaultInfo(IPSR) : Handler(IPSR, f.sfsr, f.sfar, f.acc, lr)
    \/ \E fault_addr \in FaultAddrs : FindAcl(fault_addr, WordSize)
    \/ Return

Spec == Init /\ [][Next]_vars

\* The ACL query on its own: any link image, any active box, the slot cache as
\* vmpu_arch_init or a box switch left it.
InitAcl ==
    /\ box_config \in LayoutIds
    /\ SramLaidOut
    /\ heap_pages \in PageCounts
    /\ g_active_box \in Boxes
    /\ g_mpu \in {vmpu_arch_init} \cup
                 {vmpu_switch(box_regions, active_pages, vmpu_arch_init, 0, b).mpu : b \in Boxes}
    /\ page_faults = [p \in PageIds |-> 0]
    /\ SFSR = 0
    /\ halted = FALSE
    /\ nfaults = 0
    /\ last = NoOp
    /\ fault_log = << >>

NextAcl ==
    \/ \E fault_addr \in QueryAddrs, size \in QuerySizes : FindAcl(fault_addr, size)
    \/ Return

SpecAcl == InitAcl /\ [][NextAcl]_vars

\* The same exception frame again: the instruction is retried after a recovered
\* SecureFault, faults at the same address and the handler runs a second time.
Refault ==
    LET h == vmpu_sys_mux_handler(box_regions, active_pages, g_active_box, g_mpu,
                                  page_faults, last.IPSR, last.sfsr, last.addr, last.lr)
    IN  /\ ~halted
        /\ last.op = "handler" /\ last.outcome = "return"
        /\ Len(fault_log) <= MaxRepeats
        /\ g_mpu' = h.mpu
        /\ page_faults' = h.faults
        /\ SFSR' = h.sfsr
        /\ halted' = (h.outcome = "halt")
        /\ nfaults' = IF h.outcome = "return" THEN nfaults + 1 ELSE nfaults
        /\ fault_log' = IF h.outcome = "return" THEN Append(fault_log, h.region)
                         ELSE fault_log
        /\ last' = [last EXCEPT !.outcome = h.outcome, !.code = h.code, !.ret = h.ret,
                                !.recov = h.recov, !.region = h.region]
        /\ UNCHANGED << sram_vars, box_config, heap_pages, g_active_box >>

\* One exception and its repetition, from any link image, active box and slot
\* cache a box switch can leave.
NextTwice ==
    \/ \E IPSR \in IpsrValues, lr \in ExcReturns :
          \E f \in FaultInfo(IPSR) : Handler(IPSR, f.sfsr, f.sfar, f.acc, lr)
    \/ Refault

SpecTwice == InitAcl /\ [][NextTwice]_vars

\* The box switch on its own, with page heaps from empty to fully active.
SwitchPageCounts == {0, 2, 11, 12, 13}

InitSwitch ==
    /\ box_config \in LayoutIds
    /\ heap_pages \in SwitchPageCounts
    /\ g_active_box = 0
    /\ g_mpu = vmpu_arch_init
    /\ page_faults = [p \in PageIds |-> 0]
    /\ SFSR = 0
    /\ halted = FALSE
    /\ nfaults = 0
    /\ last = NoOp
    /\ fault_log = << >>
    /\ SramLaidOut

NextSwitch ==
    \/ \E b \in Boxes : SetActiveBox(b)
    \/ \E src_box \in Boxes, dst_box \in Boxes : Switch(src_box, dst_box)
    \/ Return

SpecSwitch == InitSwitch /\ [][NextSwitch]_vars

\* Faults in a row while one box runs: the box was switched to and made active,
\* and each access to an address no slot covers raises a SecureFault.
ChainAddrs ==
    {U32(\h4000, \h0100), U32(\h4001, \h0010), U32(\h2000, \h1550), U32(\h2000, \h1970)}
    \cup {U32(\h5000, i * \h1000 + 8) : i \in 0 .. 9}

InitChain ==
    /\ box_config = 1
    /\ SramLaidOut
    /\ heap_pages = 0
    /\ g_active_box \in {1, 2}
    /\ g_mpu = vmpu_switch(box_regions, active_pages, vmpu_arch_init, 0, g_active_box).mpu
    /\ page_faults = [p \in PageIds |-> 0]
    /\ SFSR = 0
    /\ halted = FALSE
    /\ nfaults = 0
    /\ last = NoOp
    /\ fault_log = << >>

\* a SecureFault at sfar, raised because no slot covers sfar, and the handler's run
FaultChain(sfar, lr) ==
    LET sfsr == SAU_SFSR_AUVIOL_Msk + SAU_SFSR_SFARVALID_Msk
        h == vmpu_sys_mux_handler(box_regions, active_pages, g_active_box, g_mpu,
                                  page_faults, 7, sfsr, sfar, lr)
    IN  /\ ~halted
        /\ Len(fault_log) < MaxChain
        /\ \A i \in AllSlots : ~InRegion(g_mpu.slots[i].region, sfar)
        /\ g_mpu' = h.mpu
        /\ page_faults' = h.faults
        /\ SFSR' = h.sfsr
        /\ halted' = (h.outcome = "halt")
        /\ nfaults' = IF h.outcome = "return" THEN nfaults + 1 ELSE nfaults
        /\ fault_log' = IF h.outcome = "return" THEN Append(fault_log, h.region)
                         ELSE fault_log
        /\ last' = [NoOp EXCEPT !.op = "handler", !.IPSR = 7, !.sfsr = sfsr,
                                !.addr = sfar, !.acc = UVISOR_TACL_UREAD, !.lr = lr,
                                !.outcome = h.outcome, !.code = h.code, !.ret = h.ret,
                                !.recov = h.recov, !.region = h.region]
        /\ UNCHANGED << sram_vars, box_config, heap_pages, g_active_box >>

NextChain == \E sfar \in ChainAddrs : FaultChain(sfar, U32(\hFFFF, \hFFFD))

SpecChain == InitChain /\ [][NextChain]_vars

\* The SRAM layout on its own: vmpu_acl_sram called for the boxes at init time,
\* before any box runs.
SramBases == {U32(\h2000, 0), U32(\h2000, \h0404), U32(\h2000, \h1FE1)}
SramBssSizes == {U32(0, 0), U32(0, 1), U32(0, 200), U32(0, 224), U32(\hF000, 0)}
\* 0xFFFFFFE1 and above pass UVISOR_MIN_STACK unchanged and are rounded up to
\* 0 mod 2^32 at line 237
SramStackSizes == {U32(0, 0), U32(0, 1024), U32(0, 1025), U32(0, 4100),
                   U32(\hFFFF, \hFFE1)}

InitSram ==
    /\ box_config = 1
    /\ heap_pages = 0
    /\ g_active_box = 0
    /\ g_mpu = vmpu_arch_init
    /\ page_faults = [p \in PageIds |-> 0]
    /\ SFSR = 0
    /\ halted = FALSE
    /\ nfaults = 0
    /\ last = NoOp
    /\ fault_log = << >>
    /\ bss_boxes_start \in SramBases
    /\ g_box_mem_pos = Zero32
    /\ sram_layout = << >>

\* an earlier call with bss_size = 0 went past line 255: the assert is
\* compiled out of this build
AssertCompiledOut ==
    \E i \in DOMAIN sram_layout :
        sram_layout[i].bss_size_in = Zero32 /\ ~sram_layout[i].aborted

\* vmpu_acl_sram(box_id, bss_size, stack_size, &bss_start, &stack_pointer) in
\* a build with (ndebug) or without NDEBUG: one build for all the calls of a
\* run. A call that stops in the assert ends the program.
AclSram(box_id, bss_size, stack_size, ndebug) ==
    /\ ~halted
    /\ Len(sram_layout) < MaxSramCalls
    /\ AssertCompiledOut => ndebug
    /\ LET r == vmpu_acl_sram(bss_boxes_start, g_box_mem_pos, box_id, bss_size,
                              stack_size, ndebug)
       IN  /\ g_box_mem_pos' = r.g_box_mem_pos
           /\ sram_layout' = Append(sram_layout, r)
           /\ halted' = r.aborted
    /\ UNCHANGED << bss_boxes_start, box_config, heap_pages, g_active_box, g_mpu,
                    page_faults, SFSR, nfaults, last, fault_log >>

NextSram ==
    \E box_id \in Boxes \ {0}, bss_size \in SramBssSizes, stack_size \in SramStackSizes,
       ndebug \in BOOLEAN :
        AclSram(box_id, bss_size, stack_size, ndebug)

SpecSram == InitSram /\ [][NextSram]_vars

\* ------------------------------------------------------------ properties
\* regions by owner, as sets
BoxRegionSet(b) == Range(box_regions[b])
ReachableRegions == BoxRegionSet(0) \cup BoxRegionSet(g_active_box)
PageRegions == {MpuRegion(active_pages[i].start, active_pages[i].end, 1, 0) :
                    i \in DOMAIN active_pages}
Installed == {g_mpu.slots[i].region : i \in AllSlots} \ {NoRegion}
InstalledDynamic == {g_mpu.slots[i].region : i \in DynamicSlots} \ {NoRegion}
InActivePage(addr) == \E i \in DOMAIN active_pages : InRegion(active_pages[i], addr)

Covering(regions, addr) == {r \in regions : InRegion(r, addr)}

\* the region the lookup order of the specification selects for addr: the
\* active box's when the active box is not box 0 and covers addr, else box 0's
FirstHit(addr) ==
    IF g_active_box # 0 /\ Covering(BoxRegionSet(g_active_box), addr) # {}
    THEN CHOOSE r \in Covering(BoxRegionSet(g_active_box), addr) : TRUE
    ELSE IF Covering(BoxRegionSet(0), addr) # {}
    THEN CHOOSE r \in Covering(BoxRegionSet(0), addr) : TRUE
    ELSE NoRegion

\* a + b without the reduction mod 2^32 would not fit in 32 bits
Carry32(a, b) == a[1] + b[1] + ((a[2] + b[2]) \div H16) >= H16

\* [addr, addr + size) lies in [region.start, region.end), without reduction mod 2^32
Contained(addr, size, region) ==
    /\ InRegion(region, addr)
    /\ ~Carry32(addr, size)
    /\ Le32(Add32(addr, size), region.end)

HasBit(x, bit) == (x \div bit) % 2 = 1

SecureFaultTaken == last.op = "handler" /\ last.IPSR = 7

\* C1: whenever the handler returns from a SecureFault as recovered, SFAR lies
\* inside exactly one region installed in a hardware slot, and that region's
\* ACL permits the attempted access.
C1_RecoveredAccessPermitted ==
    (SecureFaultTaken /\ last.outcome = "return")
        => /\ Cardinality(Covering(Installed, last.addr)) = 1
           /\ \A r \in Covering(Installed, last.addr) : BitAnd(r.acl, last.acc) # 0

\* C2: the static-region lookup of fault recovery and of vmpu_fault_find_acl
\* takes the active box's region first (when the active box is not box 0), then
\* box 0's; a region of any other box is never returned or installed, and a
\* fault covered only by such a region is not recovered.
C2_LookupOrder ==
    /\ (SecureFaultTaken /\ last.recov # -1 /\ ~InActivePage(last.addr))
          => /\ last.region = FirstHit(last.addr)
             /\ last.region \in ReachableRegions \cup {NoRegion}
             /\ (FirstHit(last.addr) = NoRegion => last.outcome = "halt")
             /\ (FirstHit(last.addr) # NoRegion
                    => last.outcome = "return" /\ FirstHit(last.addr) \in InstalledDynamic)
    /\ (last.op = "find_acl" /\ last.addr # SCB_SCR_ADDR /\ ~InPeriphBitband(last.addr)
          /\ ~InSramBitband(last.addr))
          => /\ (FirstHit(last.addr) = NoRegion => last.acl = 0)
             /\ Contained(last.addr, last.size, FirstHit(last.addr))
                    => last.acl = FirstHit(last.addr).acl

\* C2 witness: a recovered fault on an address that a region of the active box
\* and a region of box 0 both cover.
C2_Witness ==
    /\ SecureFaultTaken /\ last.outcome = "return"
    /\ g_active_box # 0
    /\ ~InActivePage(last.addr)
    /\ Covering(BoxRegionSet(g_active_box), last.addr) # {}
    /\ Covering(BoxRegionSet(0), last.addr) # {}
    /\ Covering(BoxRegionSet(0), last.addr) # Covering(BoxRegionSet(g_active_box), last.addr)

\* C3: for a SecureFault the handler returns iff SFSR has AUVIOL and SFARVALID
\* set and recovery succeeds for SFAR; it then returns the exc_return it was
\* given with SFSR cleared; otherwise it halts with permission-denied, and
\* recovery is not invoked when a flag is missing.
C3_SecureFaultReturnOrHalt ==
    SecureFaultTaken
        => LET flags == HasBit(last.sfsr, 8) /\ HasBit(last.sfsr, 64)
               recoverable == InActivePage(last.addr)
                              \/ Covering(ReachableRegions, last.addr) # {}
           IN  /\ (last.outcome = "return") <=> (flags /\ recoverable)
               /\ (last.outcome = "return") => (last.ret = last.lr /\ SFSR = 0 /\ ~halted)
               /\ (last.outcome # "return")
                     => (last.outcome = "halt" /\ halted /\ last.code = "PERMISSION_DENIED")
               /\ (~flags) => last.recov = -1
               /\ flags => last.recov \in {0, 1}

\* C3 witness: a recovered SecureFault whose SFSR had a further bit set.
C3_Witness ==
    /\ SecureFaultTaken /\ last.outcome = "return"
    /\ last.sfsr = SAU_SFSR_AUVIOL_Msk + SAU_SFSR_SFARVALID_Msk + 1
    /\ last.ret = U32(\hFFFF, \hFFBC)

\* the fault code the handler halts with, by exception number
ExpectedHalt(IPSR) ==
    CASE IPSR = 3 -> "FAULT_HARD"
      [] IPSR = 4 -> "FAULT_MEMMANAGE"
      [] IPSR = 5 -> "FAULT_BUS"
      [] IPSR = 6 -> "FAULT_USAGE"
      [] IPSR = 12 -> "FAULT_DEBUG"
      [] IPSR \in {2, 11, 14, 15} -> "NOT_IMPLEMENTED"
      [] OTHER -> "NOT_ALLOWED"

\* C4: for every exception other than SecureFault the handler halts, with the
\* fault's own code (HardFault, MemManage, BusFault, UsageFault, DebugMonitor),
\* not-implemented (NMI, SVCall, PendSV, SysTick) or not-allowed (any other),
\* and leaves the slot cache, the active box and the page-fault records alone.
C4_OtherExceptionsHalt ==
    [][(last'.op = "handler" /\ last.op = "none" /\ last'.IPSR # 7)
          => /\ halted'
             /\ last'.outcome = "halt"
             /\ last'.code = ExpectedHalt(last'.IPSR)
             /\ g_mpu' = g_mpu
             /\ g_active_box' = g_active_box
             /\ page_faults' = page_faults]_vars

\* C4 witness: SVCall taken, after a box switch filled dynamic slots.
C4_Witness ==
    /\ last.op = "handler" /\ last.IPSR = 11
    /\ halted /\ last.code = "NOT_IMPLEMENTED"
    /\ InstalledDynamic # {}

\* C5 as stated: for any region R of the active box or of box 0 and any a, size
\* with a in [R.start, R.end) and a + size <= R.end, find_acl(a, size) = R.acl.
C5_AnyCoveringRegion ==
    last.op = "find_acl"
        => \A r \in ReachableRegions :
              Contained(last.addr, last.size, r) => last.acl = r.acl

\* C5 amended: the same for an address that is neither the SCR address nor in
\* a bit-band alias window, and for the region the lookup order selects (a
\* region of the active box when that is not box 0, else a region of box 0
\* that no region of the active box shadows at a).
C5_FirstHitRegion ==
    (last.op = "find_acl" /\ last.addr # SCB_SCR_ADDR /\ ~InPeriphBitband(last.addr)
       /\ ~InSramBitband(last.addr))
        => \A r \in ReachableRegions :
              (r = FirstHit(last.addr) /\ Contained(last.addr, last.size, r))
                  => last.acl = r.acl

\* C5 witness: a query that ends exactly at the end of its region.
C5_Witness ==
    /\ last.op = "find_acl"
    /\ last.addr = U32(\h4000, \h0FFC) /\ last.size = WordSize
    /\ FirstHit(last.addr) # NoRegion
    /\ FirstHit(last.addr).end = U32(\h4000, \h1000)
    /\ last.acl = FirstHit(last.addr).acl /\ last.acl # 0

\* C6: for an address that is not SCR, not in a bit-band alias window and not
\* covered by a region of the active box or of box 0, find_acl returns 0 for
\* every size, without halting and without changing the slot cache or the
\* page-fault records.
C6_UncoveredIsDenied ==
    [][(last'.op = "find_acl" /\ last.op = "none"
          /\ last'.addr # SCB_SCR_ADDR
          /\ ~InPeriphBitband(last'.addr) /\ ~InSramBitband(last'.addr)
          /\ Covering(ReachableRegions, last'.addr) = {})
          => /\ last'.acl = 0
             /\ last'.outcome = "return"
             /\ ~halted'
             /\ g_mpu' = g_mpu
             /\ page_faults' = page_faults]_vars

\* C6 witness: a query for an address in an active page, with dynamic slots in use.
C6_Witness ==
    /\ last.op = "find_acl" /\ last.acl = 0
    /\ InActivePage(last.addr)
    /\ Covering(ReachableRegions, last.addr) = {}
    /\ InstalledDynamic # {}
    /\ ~halted

\* C7: find_acl returns 0 whenever [addr, addr + size) is not fully contained
\* in the region found for addr, also when addr + size exceeds 2^32.
C7_RejectsAccessBeyondRegion ==
    (last.op = "find_acl" /\ last.addr # SCB_SCR_ADDR)
        => LET addr == IF InPeriphBitband(last.addr)
                       THEN VMPU_PERIPH_BITBAND_ALIAS_TO_ADDR(last.addr)
                       ELSE IF InSramBitband(last.addr)
                       THEN VMPU_SRAM_BITBAND_ALIAS_TO_ADDR(last.addr)
                       ELSE last.addr
           IN  (FirstHit(addr) # NoRegion /\ ~Contained(addr, last.size, FirstHit(addr)))
                   => last.acl = 0

\* C8: for a in the peripheral (or SRAM) bit-band alias window,
\* find_acl(a, 4) = find_acl(t, 4), t the physical address a translates to.
C8_BitbandAlias ==
    /\ (last.op = "find_acl" /\ last.size = WordSize /\ InPeriphBitband(last.addr))
          => last.acl = vmpu_fault_find_acl(box_regions, g_active_box,
                            VMPU_PERIPH_BITBAND_ALIAS_TO_ADDR(last.addr), WordSize)
    /\ (last.op = "find_acl" /\ last.size = WordSize /\ InSramBitband(last.addr))
          => last.acl = vmpu_fault_find_acl(box_regions, g_active_box,
                            VMPU_SRAM_BITBAND_ALIAS_TO_ADDR(last.addr), WordSize)

\* C8 witness: a query of an SRAM alias whose physical address is granted.
C8_Witness ==
    /\ last.op = "find_acl" /\ last.size = WordSize
    /\ InSramBitband(last.addr)
    /\ last.acl # 0
    /\ Covering(ReachableRegions, last.addr) = {}

\* C9: every region held in a dynamic slot is a region of box 0, of the box
\* the active-box pointer names, or of a currently active page.
C9_SlotsOfActiveBox ==
    InstalledDynamic \subseteq (BoxRegionSet(0) \cup BoxRegionSet(g_active_box) \cup PageRegions)

\* the pushes the specification lists for a switch to b, in order
SwitchPushes(b) ==
    (IF b # 0 THEN << box_regions[b][1] >> ELSE << >>)
    \o [i \in DOMAIN active_pages |->
            MpuRegion(active_pages[i].start, active_pages[i].end, 1, 0)]
    \o (IF b # 0 THEN Tail(box_regions[b]) ELSE box_regions[0])

\* C10: after vmpu_switch(src, b) the dynamic slots hold, in push order, b's
\* first region if b != 0, the active pages, the further regions of b up to the
\* slot budget, then the box-0 regions iff b = 0, and nothing else.
C10_SwitchSlotOrder ==
    last.op = "switch"
        => \A i \in DynamicSlots :
              LET k == i - ARMv8M_SAU_REGIONS_STATIC + 1
              IN  g_mpu.slots[i].region =
                      IF k <= Len(SwitchPushes(last.box)) THEN SwitchPushes(last.box)[k]
                      ELSE NoRegion

\* C11: after vmpu_switch(src, dst) with dst != 0, dst's stack/context region
\* (the first region of dst's slice) is held in a dynamic slot, for every
\* number of active pages and of dst regions, also when the cursor wraps.
C11_StackRegionInstalled ==
    (last.op = "switch" /\ last.box # 0)
        => box_regions[last.box][1] \in InstalledDynamic

\* the extent and hardware flags of the region held in slot i
SlotHolds(i, start, end, hw_flags) ==
    /\ g_mpu.slots[i].region.start = start
    /\ g_mpu.slots[i].region.end = end
    /\ g_mpu.slots[i].region.config = hw_flags

\* C12: after vmpu_arch_init the four static slots hold public flash
\* [flash_start, entry_points_start), the entry-point window
\* [entry_points_start, entry_points_end) marked non-secure-callable, the rest
\* of flash [entry_points_end, flash_end) and public SRAM [page_end, sram_end),
\* and no vmpu_switch, fault recovery or invalidate changes a static slot.
C12_StaticSlotsFixed ==
    /\ [](/\ SlotHolds(0, flash_start, entry_points_start, 0)
          /\ SlotHolds(1, entry_points_start, entry_points_end, SAU_RLAR_NSC_Msk)
          /\ SlotHolds(2, entry_points_end, flash_end, 0)
          /\ SlotHolds(3, page_end, sram_end, 0))
    /\ [][\A i \in StaticSlots : g_mpu'.slots[i] = g_mpu.slots[i]]_vars

\* C12 witness: a fault was recovered after a switch on which the cursor
\* wrapped, and the last static slot still holds public SRAM.
C12_Witness ==
    /\ SecureFaultTaken /\ last.outcome = "return"
    /\ g_mpu.wrapped
    /\ SlotHolds(3, page_end, sram_end, 0)

\* the SecureFault just handled had both AUVIOL and SFARVALID set
ValidSecureFault ==
    /\ SecureFaultTaken
    /\ HasBit(last.sfsr, SAU_SFSR_AUVIOL_Msk) /\ HasBit(last.sfsr, SAU_SFSR_SFARVALID_Msk)

\* C13: a SecureFault with AUVIOL and SFARVALID whose SFAR is the SCR address
\* is recovered in every configuration, also when no box region and no active
\* page covers it: a covering region is installed and the handler returns.
C13_ScrFaultRecovered ==
    (ValidSecureFault /\ last.addr = SCB_SCR_ADDR)
        => /\ last.outcome = "return"
           /\ ~halted
           /\ Covering(InstalledDynamic, SCB_SCR_ADDR) # {}

\* C14: a SecureFault whose SFAR lies in a bit-band alias window, where no
\* region covers the alias itself and a region of the active box or of box 0
\* covers the translated physical address, is recovered and that region is
\* installed.
C14_BitbandFaultRecovered ==
    (ValidSecureFault
       /\ (InPeriphBitband(last.addr) \/ InSramBitband(last.addr))
       /\ ~InActivePage(last.addr)
       /\ Covering(ReachableRegions, last.addr) = {}
       /\ FirstHit(TranslateBitband(last.addr)) # NoRegion)
        => /\ last.outcome = "return"
           /\ FirstHit(TranslateBitband(last.addr)) \in InstalledDynamic

\* C15: for every vmpu_acl_sram call with bss_size > 0, the returned values
\* satisfy stack_top - bss_start = stack_size + GUARD + bss_size, with the
\* rounded sizes recorded for the call and GUARD the stack-band size.
C15_StackTopMinusBssStart ==
    \A i \in DOMAIN sram_layout :
        sram_layout[i].bss_size_in # Zero32 =>
            Sub32(sram_layout[i].stack_pointer, sram_layout[i].bss_start)
                = Add32(Add32(sram_layout[i].stack_size, UVISOR_STACK_BAND_SIZE),
                        sram_layout[i].bss_size)

\* a + GUARD <= b, without reduction mod 2^32
BandBelow(a, b) ==
    /\ ~Carry32(a, UVISOR_STACK_BAND_SIZE)
    /\ Le32(Add32(a, UVISOR_STACK_BAND_SIZE), b)

\* C16: after any sequence of vmpu_acl_sram calls with bss_size > 0 the cursor
\* has never decreased and was initialised exactly once (by the first call),
\* and the recorded extents are non-overlapping and increasing in call order,
\* the stack extent of a call below its bss extent, each extent at least one
\* GUARD away from its neighbours and the first at least one GUARD above the
\* rounded bss_boxes_start.
C16_SramLayoutMonotone ==
    (\A k \in DOMAIN sram_layout : sram_layout[k].bss_size_in # Zero32) =>
    \A i \in DOMAIN sram_layout :
        LET c == sram_layout[i]
            bss_end == Add32(c.bss_start, c.bss_size)
        IN  /\ c.initialised <=> (i = 1)
            /\ Le32(c.stack_start, c.stack_pointer)
            /\ BandBelow(c.stack_pointer, c.bss_start)
            /\ ~Carry32(c.bss_start, c.bss_size)
            /\ BandBelow(bss_end, c.g_box_mem_pos)
            /\ (i = 1) => /\ ~Carry32(bss_boxes_start, U32(0, 31))
                          /\ BandBelow(UVISOR_REGION_ROUND_UP(bss_boxes_start),
                                       c.stack_start)
            /\ (i > 1) => /\ c.stack_start = sram_layout[i - 1].g_box_mem_pos
                          /\ Lt32(sram_layout[i - 1].bss_start, c.stack_start)

\* the handler run on the reference slot cache (as vmpu_arch_init left it, no
\* page fault registered) with the inputs of the run recorded in last
ReferenceRun ==
    vmpu_sys_mux_handler(box_regions, active_pages, g_active_box, vmpu_arch_init,
                         [p \in PageIds |-> 0], last.IPSR, last.sfsr, last.addr, last.lr)

\* the dynamic slot before slot i in round-robin order
SlotBefore(i) == IF i = ARMv8M_SAU_REGIONS_STATIC THEN ARMv8M_SAU_REGIONS_MAX - 1 ELSE i - 1

\* C17: the handler's outcome (the exc_return returned or the halt code) and
\* the region a recovered run installs depend only on the region tables, the
\* active box, the active pages, SFSR, SFAR and exc_return, not on the slot
\* cache or the page-fault records; the same SecureFault taken a second time
\* gives the same outcome and region, written to the next dynamic slot in
\* round-robin order, every other slot unchanged.
C17_HandlerDeterministic ==
    /\ [](last.op = "handler"
             => /\ last.outcome = ReferenceRun.outcome
                /\ last.code = ReferenceRun.code
                /\ last.ret = ReferenceRun.ret
                /\ last.region = ReferenceRun.region)
    /\ [][(last.op = "handler" /\ last'.op = "handler")
             => /\ last'.outcome = last.outcome
                /\ last'.code = last.code
                /\ last'.ret = last.ret
                /\ last'.region = last.region
                /\ g_mpu'.slots = [g_mpu.slots EXCEPT
                                      ![g_mpu.slot] = g_mpu.slots[SlotBefore(g_mpu.slot)]]]_vars

\* C17 witness: a SecureFault recovered twice in a row, starting from a slot
\* cache on which the cursor had wrapped.
C17_Witness ==
    /\ SecureFaultTaken /\ last.outcome = "return"
    /\ Len(fault_log) = 2 /\ fault_log[1] = fault_log[2]
    /\ g_mpu.wrapped
    /\ Cardinality({i \in DynamicSlots : g_mpu.slots[i].region = last.region}) >= 2

\* the dynamic slot after slot i in round-robin order
SlotAfter(i) == IF i + 1 >= ARMv8M_SAU_REGIONS_MAX THEN ARMv8M_SAU_REGIONS_STATIC ELSE i + 1

\* C18: fault recovery consults the page allocator before any static region.
\* When the faulting address is in an active page, register_fault is called
\* exactly once, for that page, exactly one region, the page's [start, end)
\* with config = 1, is pushed at priority 100, recovery reports recovered and
\* no static region is installed, also when one covers the address; when the
\* address is in no active page, register_fault is not called.
C18_PageAllocatorFirst ==
    [][(last.op = "none" /\ last'.op = "handler" /\ last'.recov # -1)
          => LET hits == {i \in DOMAIN active_pages : InRegion(active_pages[i], last'.addr)}
             IN  IF hits # {}
                 THEN \E i \in hits :
                        LET pg == active_pages[i]
                            region == MpuRegion(pg.start, pg.end, 1, 0)
                        IN  /\ page_faults' = [page_faults EXCEPT ![pg.page] = @ + 1]
                            /\ g_mpu'.slots = [g_mpu.slots EXCEPT
                                                  ![g_mpu.slot] = Slot(region, 100)]
                            /\ g_mpu'.slot = SlotAfter(g_mpu.slot)
                            /\ last'.recov = 1 /\ last'.outcome = "return"
                            /\ last'.region = region
                 ELSE page_faults' = page_faults]_vars

\* C18 witness: a recovered fault at an address that an active page and a
\* region of box 0 both cover; the page's region was installed.
C18_Witness ==
    /\ SecureFaultTaken /\ last.outcome = "return"
    /\ InActivePage(last.addr)
    /\ Covering(BoxRegionSet(0), last.addr) # {}
    /\ last.region.config = 1
    /\ last.region \in InstalledDynamic
    /\ \E p \in PageIds : page_faults[p] = 1

\* C19: within one vmpu_switch the pushes return true up to and including the
\* one on which the cursor wraps and false after it, and once a push has
\* returned false the switch issues no further push, so a switch never
\* overwrites more dynamic slots than that.
C19_NoPushAfterFalse ==
    last.op = "switch"
        => /\ \A i \in DOMAIN last.oks :
                 last.oks[i] <=> (i <= Cardinality(DynamicSlots))
           /\ \A i \in DOMAIN last.oks : ~last.oks[i] => i = Len(last.oks)

\* C20: a region installed by a recovered fault stays installed while at most
\* D - 1 further pushes happen (D the number of dynamic slots), so after a
\* sequence of recovered faults on up to D distinct regions with no box switch
\* in between all of them are installed; and every fault on an address that a
\* region of the active box or of box 0 covers is served.
C20_RoundRobinProgress ==
    /\ \A j \in DOMAIN fault_log :
          j > Len(fault_log) - Cardinality(DynamicSlots)
              => fault_log[j] \in InstalledDynamic
    /\ (SecureFaultTaken /\ Covering(ReachableRegions, last.addr) # {})
          => (last.outcome = "return" /\ InstalledDynamic # {}
              /\ Covering(InstalledDynamic, last.addr) # {})

\* C20 witness: twelve faults in a row on twelve distinct regions were
\* recovered and the twelve dynamic slots hold exactly these regions.
C20_Witness ==
    /\ Len(fault_log) = Cardinality(DynamicSlots)
    /\ Cardinality(Range(fault_log)) = Cardinality(DynamicSlots)
    /\ InstalledDynamic = Range(fault_log)
    /\ ~halted

====
